---- MODULE Spec2Model ----
(***************************************************************************)
(* Commission models of zipline/finance/commission.py: PerShare,           *)
(* OrderCost, PerTrade and PerDollar, each with calculate, __getstate__    *)
(* and __setstate__.                                                       *)
(*                                                                         *)
(* Numbers (Python ints and floats) are modelled as exact rationals        *)
(* <<n, d>> in lowest terms with d > 0.  None is the empty tuple.          *)
(* An instance is its __dict__: a function from attribute names to values. *)
(***************************************************************************)
EXTENDS Integers, Sequences, FiniteSets, TLC

(***************************************************************************)
(* Bounds of the model.                                                    *)
(***************************************************************************)
MaxAmount == 2
MaxPrice == 1
MaxVersion == 2

(***************************************************************************)
(* Rational arithmetic.                                                    *)
(***************************************************************************)
Abs(n) == IF n < 0 THEN -n ELSE n

RECURSIVE GCD(_, _)
GCD(a, b) == IF b = 0 THEN a ELSE GCD(b, a % b)

Norm(x) ==
    LET s == IF x[2] < 0 THEN -1 ELSE 1
        g == GCD(Abs(x[1]), Abs(x[2]))
    IN  <<(s * x[1]) \div g, (s * x[2]) \div g>>

Num(n) == <<n, 1>>
Zero == Num(0)
None == <<>>

RMul(x, y) == Norm(<<x[1] * y[1], x[2] * y[2]>>)
RAdd(x, y) == Norm(<<x[1] * y[2] + y[1] * x[2], x[2] * y[2]>>)
RDiv(x, y) == Norm(<<x[1] * y[2], x[2] * y[1]>>)
RAbs(x) == <<Abs(x[1]), x[2]>>
RLt(x, y) == x[1] * y[2] < y[1] * x[2]
RLe(x, y) == x[1] * y[2] <= y[1] * x[2]
RMax(x, y) == IF RLt(x, y) THEN y ELSE x

\* float(x): value-preserving conversion of a number to floating point
Float(x) == Norm(x)

(***************************************************************************)
(* Outcomes of a call: a normal return or a raised exception.              *)
(***************************************************************************)
Return(v) == [status |-> "ok", exc |-> "", value |-> v]
Raise(e) == [status |-> "raise", exc |-> e, value |-> <<>>]

(***************************************************************************)
(* Attribute names and the values the model draws for them.                *)
(***************************************************************************)
VERSION_LABEL == "_stateversion_"
PrivateKey == "_cache"
Classes == {"PerShare", "OrderCost", "PerTrade", "PerDollar"}

\* k.startswith('_') over the keys of the model
startswith_(k) == k \in {VERSION_LABEL, PrivateKey}

FieldValues(c) ==
    CASE c = "PerShare" ->
            [cost |-> {<<-1, 1>>, <<0, 1>>, <<3, 100>>, <<5, 1>>},
             min_trade_cost |-> {None, <<1, 2>>, <<5, 1>>}]
      [] c = "OrderCost" ->
            [open_tax |-> {<<0, 1>>, <<1, 1000>>},
             close_tax |-> {<<0, 1>>, <<1, 1000>>},
             open_commission |-> {<<-3, 1000>>, <<3, 1000>>},
             close_commission |-> {<<3, 1000>>, <<1, 100>>},
             close_today_commission |-> {<<0, 1>>},
             min_commission |-> {<<0, 1>>, <<5, 1>>}]
      [] c = "PerTrade" ->
            [cost |-> {<<-5, 1>>, <<0, 1>>, <<1, 2>>, <<5, 1>>}]
      [] c = "PerDollar" ->
            [cost |-> {<<-1, 100>>, <<0, 1>>, <<3, 2000>>, <<1, 10>>}]

Fields(c) == DOMAIN FieldValues(c)

Amounts == (-MaxAmount .. MaxAmount) \cup {-1000, -100, 50, 100}
Prices == {Num(p) : p \in 0 .. MaxPrice} \cup {Num(10)}
Transactions == [amount : Amounts, price : Prices]
NoTransaction == [amount |-> 0, price |-> Zero]

(***************************************************************************)
(* Constructors.                                                           *)
(***************************************************************************)
PerShare_init(cost, min_trade_cost) ==
    [cost |-> Float(cost),
     min_trade_cost |-> IF min_trade_cost = None THEN None
                        ELSE Float(min_trade_cost)]

OrderCost_init(open_tax, close_tax, open_commission, close_commission, close_today_commission, min_commission) ==
    [open_tax |-> open_tax,
     close_tax |-> close_tax,
     open_commission |-> open_commission,
     close_commission |-> close_commission,
     close_today_commission |-> close_today_commission,
     min_commission |-> min_commission]

PerTrade_init(cost) == [cost |-> Float(cost)]

PerDollar_init(cost) == [cost |-> Float(cost)]

\* every instance the constructors build from the values of the model
Instances(c) ==
    LET V == FieldValues(c) IN
    CASE c = "PerShare" ->
            {PerShare_init(x, m) : x \in V.cost, m \in V.min_trade_cost}
      [] c = "OrderCost" ->
            {OrderCost_init(a[1], a[2], a[3], a[4], a[5], a[6]) :
                a \in V.open_tax \X V.close_tax \X V.open_commission
                      \X V.close_commission \X V.close_today_commission
                      \X V.min_commission}
      [] c = "PerTrade" -> {PerTrade_init(x) : x \in V.cost}
      [] c = "PerDollar" -> {PerDollar_init(x) : x \in V.cost}

(***************************************************************************)
(* calculate                                                               *)
(***************************************************************************)
\* PerShare.calculate without the floor of min_trade_cost
PerShare_calculate_NoFloor(self, transaction) ==
    LET commission == RAbs(RMul(Num(transaction.amount), self.cost)) IN
    IF self.min_trade_cost = None
    THEN Return(<<self.cost, commission>>)
    ELSE IF transaction.amount = 0
         THEN Raise("ZeroDivisionError")
         ELSE Return(<<RAbs(RDiv(commission, Num(transaction.amount))),
                       commission>>)

\* PerShare.calculate with the zero amount short-circuited as in PerTrade
PerShare_calculate_ZeroShortCircuit(self, transaction) ==
    LET commission == RAbs(RMul(Num(transaction.amount), self.cost)) IN
    IF transaction.amount = 0
    THEN Return(<<Zero, Zero>>)
    ELSE IF self.min_trade_cost = None
    THEN Return(<<self.cost, commission>>)
    ELSE LET commission2 == RMax(commission, self.min_trade_cost) IN
         Return(<<RAbs(RDiv(commission2, Num(transaction.amount))),
                  commission2>>)

PerShare_calculate(self, transaction) ==
    LET commission == RAbs(RMul(Num(transaction.amount), self.cost)) IN
    IF self.min_trade_cost = None
    THEN Return(<<self.cost, commission>>)
    ELSE LET commission2 == RMax(commission, self.min_trade_cost) IN
         IF transaction.amount = 0
         THEN Raise("ZeroDivisionError")
         ELSE Return(<<RAbs(RDiv(commission2, Num(transaction.amount))),
                       commission2>>)

\* OrderCost.calculate charging no close_tax on a sell
OrderCost_calculate_NoTax(self, transaction) ==
    IF transaction.amount = 0
    THEN Return(<<Zero, Zero>>)
    ELSE IF transaction.amount > 0
    THEN Return(<<RMul(transaction.price, self.open_commission),
                  RMul(RMul(transaction.price, self.open_commission),
                       Num(transaction.amount))>>)
    ELSE Return(<<RMul(transaction.price, self.close_commission),
                  RMul(RMul(transaction.price, self.close_commission),
                       Num(Abs(transaction.amount)))>>)

\* OrderCost.calculate applying min_commission as a floor of the total
OrderCost_calculate_MinCommission(self, transaction) ==
    IF transaction.amount = 0
    THEN Return(<<Zero, Zero>>)
    ELSE IF transaction.amount > 0
    THEN Return(<<RMul(transaction.price, self.open_commission),
                  RMax(RMul(RMul(transaction.price, self.open_commission),
                            Num(transaction.amount)),
                       self.min_commission)>>)
    ELSE Return(<<RMul(transaction.price,
                       RAdd(self.close_commission, self.close_tax)),
                  RMax(RMul(RMul(transaction.price,
                                 RAdd(self.close_commission, self.close_tax)),
                            Num(Abs(transaction.amount))),
                       self.min_commission)>>)

OrderCost_calculate(self, transaction) ==
    IF transaction.amount = 0
    THEN Return(<<Zero, Zero>>)
    ELSE IF transaction.amount > 0
    THEN Return(<<RMul(transaction.price, self.open_commission),
                  RMul(RMul(transaction.price, self.open_commission),
                       Num(transaction.amount))>>)
    ELSE Return(<<RMul(transaction.price,
                       RAdd(self.close_commission, self.close_tax)),
                  RMul(RMul(transaction.price,
                            RAdd(self.close_commission, self.close_tax)),
                       Num(Abs(transaction.amount)))>>)

\* PerTrade.calculate without abs on the unit cost
PerTrade_calculate_NoAbs(self, transaction) ==
    IF transaction.amount = 0
    THEN Return(<<Zero, Zero>>)
    ELSE Return(<<RDiv(self.cost, Num(transaction.amount)), self.cost>>)

PerTrade_calculate(self, transaction) ==
    IF transaction.amount = 0
    THEN Return(<<Zero, Zero>>)
    ELSE Return(<<RAbs(RDiv(self.cost, Num(transaction.amount))), self.cost>>)

\* PerDollar.calculate without abs on the amount
PerDollar_calculate_NoAbs(self, transaction) ==
    LET cost_per_share == RMul(transaction.price, self.cost) IN
    Return(<<cost_per_share, RMul(Num(transaction.amount), cost_per_share)>>)

PerDollar_calculate(self, transaction) ==
    LET cost_per_share == RMul(transaction.price, self.cost) IN
    Return(<<cost_per_share,
             RMul(Num(Abs(transaction.amount)), cost_per_share)>>)

calculate(c, self, transaction) ==
    CASE c = "PerShare" -> PerShare_calculate(self, transaction)
      [] c = "OrderCost" -> OrderCost_calculate(self, transaction)
      [] c = "PerTrade" -> PerTrade_calculate(self, transaction)
      [] c = "PerDollar" -> PerDollar_calculate(self, transaction)

(***************************************************************************)
(* __getstate__ and __setstate__ (the same code in the four classes, up to *)
(* the text of the error).                                                 *)
(***************************************************************************)
STATE_VERSION == 1
OLDEST_SUPPORTED_STATE == 1

\* d restricted to the keys in S
Restrict(d, S) == [k \in S |-> d[k]]

\* d with the key k set to v (state_dict[k] = v)
SetItem(d, k, v) ==
    [j \in DOMAIN d \cup {k} |-> IF j = k THEN v ELSE d[j]]

\* d.update(s)
update(d, s) ==
    [k \in DOMAIN d \cup DOMAIN s |-> IF k \in DOMAIN s THEN s[k] ELSE d[k]]

\* __getstate__ stamping a version older than the one __setstate__ accepts
getstate_StaleVersion(self) ==
    LET state_dict == Restrict(self, {k \in DOMAIN self : ~startswith_(k)})
    IN  SetItem(state_dict, VERSION_LABEL, STATE_VERSION - 1)

getstate(self) ==
    LET state_dict == Restrict(self, {k \in DOMAIN self : ~startswith_(k)})
    IN  SetItem(state_dict, VERSION_LABEL, STATE_VERSION)

TooOldMessage(c) ==
    CASE c = "PerShare" -> "PerShare saved state is too old."
      [] c = "OrderCost" -> "PerTrade saved state is too old."
      [] c = "PerTrade" -> "PerTrade saved state is too old."
      [] c = "PerDollar" -> "PerDollar saved state is too old."

\* __setstate__ updating the instance before it checks the version
setstate_UpdateFirst(c, self, state) ==
    IF VERSION_LABEL \notin DOMAIN state
    THEN [dict |-> self, state |-> state, ret |-> Raise("KeyError")]
    ELSE LET version == state[VERSION_LABEL]
             popped == Restrict(state, DOMAIN state \ {VERSION_LABEL})
         IN  IF version < OLDEST_SUPPORTED_STATE
             THEN [dict |-> update(self, popped), state |-> popped,
                   ret |-> Raise(TooOldMessage(c))]
             ELSE [dict |-> update(self, popped), state |-> popped,
                   ret |-> Return(None)]

\* __setstate__ reading the version stamp without removing it (get, not pop)
setstate_KeepStamp(c, self, state) ==
    IF VERSION_LABEL \notin DOMAIN state
    THEN [dict |-> self, state |-> state, ret |-> Raise("KeyError")]
    ELSE LET version == state[VERSION_LABEL]
         IN  IF version < OLDEST_SUPPORTED_STATE
             THEN [dict |-> self, state |-> state,
                   ret |-> Raise(TooOldMessage(c))]
             ELSE [dict |-> update(self, state), state |-> state,
                   ret |-> Return(None)]

\* the instance's __dict__, the mapping and the outcome after
\* self.__setstate__(state)
setstate(c, self, state) ==
    IF VERSION_LABEL \notin DOMAIN state
    THEN [dict |-> self, state |-> state, ret |-> Raise("KeyError")]
    ELSE LET version == state[VERSION_LABEL]
             popped == Restrict(state, DOMAIN state \ {VERSION_LABEL})
         IN  IF version < OLDEST_SUPPORTED_STATE
             THEN [dict |-> self, state |-> popped,
                   ret |-> Raise(TooOldMessage(c))]
             ELSE [dict |-> update(self, popped), state |-> popped,
                   ret |-> Return(None)]

(***************************************************************************)
(* The mappings handed to __setstate__: what __getstate__ returns for an   *)
(* instance, and the empty mapping and the mappings of one key (a public   *)
(* one or the private one) with a version stamp of 0 .. MaxVersion or      *)
(* without one.                                                            *)
(***************************************************************************)
KeyValues(c) ==
    [k \in Fields(c) \cup {PrivateKey} |->
        IF k = PrivateKey THEN {Num(1)} ELSE FieldValues(c)[k]]

EmptyMapping == [k \in {} |-> None]

Small(c) ==
    LET V == KeyValues(c)
    IN  {EmptyMapping} \cup UNION {{k :> v : v \in V[k]} : k \in DOMAIN V}

Mappings(c) ==
    {getstate(i) : i \in Instances(c)}
        \cup Small(c)
        \cup {SetItem(m, VERSION_LABEL, v) : m \in Small(c),
                                             v \in 0 .. MaxVersion}

MappingsOf == [c \in Classes |-> Mappings(c)]

(***************************************************************************)
(* State.                                                                  *)
(***************************************************************************)
VARIABLES
    cls,            \* the class of the instance
    dict,           \* the instance's __dict__
    op,             \* the method called last
    txn,            \* the transaction of the last calculate
    mapping,        \* the mapping of the last __getstate__ / __setstate__,
                    \* as the call left it
    ret,            \* the outcome of the last call
    old             \* __dict__ and mapping as they were before the last call

vars == <<cls, dict, op, txn, mapping, ret, old>>

NoMapping == <<>>
NoOld == [dict |-> <<>>, state |-> <<>>]

Init ==
    /\ cls \in Classes
    /\ dict \in Instances(cls)
    /\ op = "init"
    /\ txn = NoTransaction
    /\ mapping = NoMapping
    /\ ret = Return(None)
    /\ old = NoOld

Calculate ==
    \E t \in Transactions :
        /\ op' = "calculate"
        /\ txn' = t
        /\ ret' = calculate(cls, dict, t)
        /\ mapping' = NoMapping
        /\ old' = [dict |-> dict, state |-> NoMapping]
        /\ UNCHANGED <<cls, dict>>

GetState ==
    /\ op' = "getstate"
    /\ txn' = NoTransaction
    /\ mapping' = getstate(dict)
    /\ ret' = Return(getstate(dict))
    /\ old' = [dict |-> dict, state |-> NoMapping]
    /\ UNCHANGED <<cls, dict>>

SetState ==
    \E m \in MappingsOf[cls] :
        \E r \in {setstate(cls, dict, m)} :
        /\ op' = "setstate"
        /\ txn' = NoTransaction
        /\ dict' = r.dict
        /\ mapping' = r.state
        /\ ret' = r.ret
        /\ old' = [dict |-> dict, state |-> m]
        /\ UNCHANGED cls

Next == Calculate \/ GetState \/ SetState

Spec == Init /\ [][Next]_vars

(***************************************************************************)
(* Properties.                                                             *)
(***************************************************************************)
\* the last call was __setstate__ and its mapping carried a version stamp
Imported == op = "setstate" /\ VERSION_LABEL \in DOMAIN old.state
Stamp == old.state[VERSION_LABEL]

\* the instances the model can hold: constructed, then possibly given the
\* private attribute by __setstate__
AllInstances(c) ==
    Instances(c) \cup {SetItem(i, PrivateKey, Num(1)) : i \in Instances(c)}

\* C1: for every variant and every transaction with a non-negative price,
\* the total_cost that calculate returns is greater than or equal to 0.
C1_TotalCostNonNegative ==
    (op = "calculate" /\ ret.status = "ok" /\ RLe(Zero, txn.price))
        => RLe(Zero, ret.value[2])

\* C2: __setstate__ given a mapping whose version stamp is below 1 raises,
\* and every field of the instance keeps the value it had before the call.
C2_TooOldFailsWithoutRestore ==
    (Imported /\ Stamp < 1)
        => /\ ret.status = "raise"
           /\ ret.exc = TooOldMessage(cls)
           /\ dict = old.dict

C2_Witness ==
    /\ Imported /\ Stamp < 1
    /\ ret.status = "raise"
    /\ \E k \in DOMAIN mapping : k \in DOMAIN dict /\ mapping[k] # dict[k]

\* C3: __setstate__ given the mapping that __getstate__ returns for an
\* instance succeeds, and leaves an instance whose configuration fields are
\* those of the exported instance and whose calculate returns what the
\* exported instance's calculate returns, for every transaction.
C3_RoundTrip ==
    \A src \in AllInstances(cls) :
        (op = "setstate" /\ old.state = getstate(src))
            => /\ ret.status = "ok"
               /\ \A f \in Fields(cls) : f \in DOMAIN dict /\ dict[f] = src[f]
               /\ \A t \in Transactions :
                      calculate(cls, dict, t) = calculate(cls, src, t)

C3_Witness ==
    /\ op = "setstate"
    /\ ret.status = "ok"
    /\ \E src \in Instances(cls) :
           /\ old.state = getstate(src)
           /\ \E f \in Fields(cls) : old.dict[f] # src[f]
           /\ \E t \in Transactions :
                  calculate(cls, old.dict, t) # calculate(cls, src, t)

\* C4: PerShare.calculate with amount != 0 returns (cost, abs(amount * cost))
\* when min_trade_cost is None, and (abs(c / amount), c) with
\* c = max(abs(amount * cost), min_trade_cost) otherwise, so that the total
\* is never below the minimum; cost 0.03, minimum 5.0 and amount 100 give
\* (0.05, 5.0).
C4_PerShare ==
    (cls = "PerShare" /\ op = "calculate" /\ txn.amount # 0)
        => LET amount == Num(txn.amount)
               base == RAbs(RMul(amount, dict.cost))
               floor == dict.min_trade_cost
           IN  /\ floor = None => ret = Return(<<dict.cost, base>>)
               /\ floor # None =>
                     /\ ret.status = "ok"
                     /\ ret.value[2] = RMax(base, floor)
                     /\ ret.value[1] = RAbs(RDiv(ret.value[2], amount))
                     /\ RLe(floor, ret.value[2])
               /\ (dict.cost = <<3, 100>> /\ floor = <<5, 1>>
                       /\ txn.amount = 100)
                     => ret.value = <<(<<1, 20>>), (<<5, 1>>)>>

C4_Witness ==
    /\ cls = "PerShare" /\ op = "calculate"
    /\ dict.cost = <<3, 100>> /\ dict.min_trade_cost = <<5, 1>>
    /\ txn.amount = 100
    /\ ret.status = "ok"
    /\ RLt(RAbs(RMul(Num(txn.amount), dict.cost)), ret.value[2])

\* C5: OrderCost.calculate returns (0.0, 0.0) when amount == 0, (u, u * amount)
\* with u = price * open_commission when amount > 0, and (u, u * abs(amount))
\* with u = price * (close_commission + close_tax) when amount < 0.
C5_OrderCost ==
    (cls = "OrderCost" /\ op = "calculate")
        => LET buy == RMul(txn.price, dict.open_commission)
               sell == RMul(txn.price,
                            RAdd(dict.close_commission, dict.close_tax))
           IN  /\ txn.amount = 0 => ret = Return(<<Zero, Zero>>)
               /\ txn.amount > 0 =>
                     ret = Return(<<buy, RMul(buy, Num(txn.amount))>>)
               /\ txn.amount < 0 =>
                     ret = Return(<<sell, RMul(sell, Num(-txn.amount))>>)

C5_Witness ==
    /\ cls = "OrderCost" /\ op = "calculate"
    /\ txn.amount = -100 /\ txn.price = Num(10)
    /\ dict.close_commission = <<3, 1000>> /\ dict.close_tax = <<1, 1000>>
    /\ ret = Return(<<(<<1, 25>>), (<<4, 1>>)>>)

\* C6: PerTrade.calculate returns (0.0, 0.0) when amount == 0 and
\* (abs(cost / amount), cost) otherwise; the price does not affect the result.
C6_PerTrade ==
    (cls = "PerTrade" /\ op = "calculate")
        => /\ txn.amount = 0 => ret = Return(<<Zero, Zero>>)
           /\ txn.amount # 0 =>
                 /\ ret.status = "ok"
                 /\ ret.value[2] = dict.cost
                 /\ ret.value[1] = RAbs(RDiv(dict.cost, Num(txn.amount)))
                 /\ RLe(Zero, ret.value[1])
           /\ \A p \in Prices :
                 calculate(cls, dict, [txn EXCEPT !.price = p]) = ret

C6_Witness ==
    /\ cls = "PerTrade" /\ op = "calculate"
    /\ dict.cost = <<5, 1>> /\ txn.amount = 50
    /\ ret = Return(<<(<<1, 10>>), (<<5, 1>>)>>)

\* C7: PerDollar.calculate returns (price * cost, abs(amount) * price * cost)
\* for every transaction; the opposite amount at the same price gets the
\* same result.
C7_PerDollar ==
    (cls = "PerDollar" /\ op = "calculate")
        => LET unit == RMul(txn.price, dict.cost)
           IN  /\ ret = Return(<<unit, RMul(Num(Abs(txn.amount)), unit)>>)
               /\ txn.amount = 0 => ret.value[2] = Zero
               /\ -txn.amount \in Amounts =>
                     calculate(cls, dict, [txn EXCEPT !.amount = -txn.amount])
                         = ret

C7_Witness ==
    /\ cls = "PerDollar" /\ op = "calculate"
    /\ dict.cost = <<3, 2000>> /\ txn.amount = -1000 /\ txn.price = Num(10)
    /\ ret = Return(<<(<<3, 200>>), (<<15, 1>>)>>)

\* C8: PerShare.calculate with amount == 0 raises ZeroDivisionError when
\* min_trade_cost is set, and returns (cost, 0) when it is None.
C8_PerShareZeroAmount ==
    (cls = "PerShare" /\ op = "calculate" /\ txn.amount = 0)
        => /\ dict.min_trade_cost # None =>
                 ret.status = "raise" /\ ret.exc = "ZeroDivisionError"
           /\ dict.min_trade_cost = None => ret = Return(<<dict.cost, Zero>>)

C8_Witness ==
    /\ cls = "PerShare" /\ op = "calculate" /\ txn.amount = 0
    /\ dict.min_trade_cost # None
    /\ ret.status = "raise"

\* C9: __setstate__ given a mapping whose version stamp is at least 1
\* succeeds; the stamp is removed from the mapping and is no field of the
\* instance, every other key of the mapping is a field holding the mapping's
\* value, and the fields the mapping does not mention keep their values.
C9_ImportFrame ==
    (Imported /\ Stamp >= 1)
        => /\ ret.status = "ok"
           /\ VERSION_LABEL \notin DOMAIN mapping
           /\ VERSION_LABEL \notin DOMAIN dict
           /\ DOMAIN mapping = DOMAIN old.state \ {VERSION_LABEL}
           /\ \A k \in DOMAIN mapping :
                 /\ mapping[k] = old.state[k]
                 /\ k \in DOMAIN dict
                 /\ dict[k] = old.state[k]
           /\ \A k \in DOMAIN old.dict \ DOMAIN old.state :
                 k \in DOMAIN dict /\ dict[k] = old.dict[k]
           /\ DOMAIN dict = DOMAIN old.dict \cup DOMAIN mapping

C9_Witness ==
    /\ Imported /\ Stamp > 1
    /\ ret.status = "ok"
    /\ \E k \in DOMAIN mapping : k \in DOMAIN old.dict /\ old.dict[k] # dict[k]
    /\ \E k \in DOMAIN old.dict : k \notin DOMAIN mapping

\* C10: the result of OrderCost.calculate does not depend on open_tax,
\* close_today_commission or min_commission: the instance with any other
\* values of these three fields returns the same result for the transaction.
OtherValues == {<<0, 1>>, <<1, 1000>>, <<5, 1>>, <<7, 1>>}

C10_OrderCostUnusedFields ==
    (cls = "OrderCost" /\ op = "calculate")
        => \A a \in OtherValues, b \in OtherValues, m \in OtherValues :
               calculate(cls, [dict EXCEPT !.open_tax = a,
                                           !.close_today_commission = b,
                                           !.min_commission = m], txn) = ret

C10_Witness ==
    /\ cls = "OrderCost" /\ op = "calculate"
    /\ txn.amount > 0
    /\ dict.open_tax # Zero
    /\ dict.min_commission = <<5, 1>>
    /\ ret.status = "ok"
    /\ RLt(Zero, ret.value[2])
    /\ RLt(ret.value[2], dict.min_commission)

====
